---------------------------- MODULE Spec2Model ----------------------------
(***************************************************************************)
(* Model of the order-hashing and signing core of edgex-rust-sdk           *)
(* (src/src/signature.rs): SignatureManager::new, calc_limit_order_hash    *)
(* and sign_l2_action.                                                      *)
(*                                                                         *)
(* Representation.  A field element (Felt) and a [u8; 32] buffer are a     *)
(* sequence of 32 bytes, most significant first (what Felt::to_bytes_be    *)
(* yields); a u64 is carried as the Felt that Felt::from(u64) builds.  A   *)
(* Rust string is a sequence of one-character strings.  The two-argument   *)
(* hash and the signature primitive belong to external crates and are      *)
(* modelled by their contracts: the hash as a free (collision-free)        *)
(* constructor, the signature primitive as a choice among its outcomes.    *)
(***************************************************************************)
EXTENDS Integers, Sequences, FiniteSets, TLC

(***************************************************************************)
(* Evaluation aid: binds the value of v before F uses it, so that an       *)
(* argument is computed once.                                              *)
(***************************************************************************)
Eager(v, F(_)) == CHOOSE r \in {F(x) : x \in {v}} : TRUE

(***************************************************************************)
(* 256-bit big-endian byte arithmetic and the field of size PRIME.         *)
(***************************************************************************)
NumBytes == 32

Bytes32(f) == SubSeq(f, 1, NumBytes)

\* The Stark field prime 2^251 + 17 * 2^192 + 1 =
\* 0x0800000000000011000000000000000000000000000000000000000000000001.
PRIME == Bytes32([i \in 1..NumBytes |-> IF i = 1 THEN 8 ELSE IF i = 8 THEN 17
                                         ELSE IF i = NumBytes THEN 1 ELSE 0])

FeltZero == Bytes32([i \in 1..NumBytes |-> 0])

\* a < b on the suffixes starting at byte i
RECURSIVE LessFrom(_, _, _)
LessFrom(a, b, i) ==
    IF i > NumBytes THEN FALSE
    ELSE IF a[i] # b[i] THEN a[i] < b[i]
    ELSE LessFrom(a, b, i + 1)

Less(a, b) == LessFrom(a, b, 1)

\* a - b for a >= b
Sub(a, b) ==
    Bytes32([i \in 1..NumBytes |->
        (a[i] - b[i] - (IF LessFrom(a, b, i + 1) THEN 1 ELSE 0) + 256) % 256])

\* the carry out of the suffixes starting at byte i
RECURSIVE CarryFrom(_, _, _)
CarryFrom(a, b, i) ==
    IF i > NumBytes THEN 0
    ELSE IF a[i] + b[i] > 255 THEN 1
    ELSE IF a[i] + b[i] < 255 THEN 0
    ELSE CarryFrom(a, b, i + 1)

\* a + b modulo 2^256
AddRaw(a, b) ==
    Bytes32([i \in 1..NumBytes |-> (a[i] + b[i] + CarryFrom(a, b, i + 1)) % 256])

\* the canonical representative of a value below 2 * PRIME
Reduce(a0) == Eager(a0, LAMBDA a : IF Less(a, PRIME) THEN a ELSE Sub(a, PRIME))

\* the canonical representative of any 256-bit value (2^256 < 32 * PRIME)
RECURSIVE ReduceFull(_)
ReduceFull(a0) ==
    Eager(a0, LAMBDA a : IF Less(a, PRIME) THEN a ELSE ReduceFull(Sub(a, PRIME)))

\* Felt + Felt
FeltAdd(a0, b0) ==
    Eager(a0, LAMBDA a : Eager(b0, LAMBDA b : Reduce(AddRaw(a, b))))

\* Felt * 2
Double(a0) ==
    Eager(a0, LAMBDA a : Reduce(Bytes32([i \in 1..NumBytes |->
        (2 * a[i] + (IF i < NumBytes /\ a[i + 1] >= 128 THEN 1 ELSE 0)) % 256])))

\* a * 2^(8 * m) for an a whose product stays below 2^251 (and so below PRIME)
ShiftBytes(a, m) ==
    Bytes32([i \in 1..NumBytes |-> IF i + m <= NumBytes THEN a[i + m] ELSE 0])

FitsShifted(a, m) == m < NumBytes /\ a[m + 1] < 8 /\ \A i \in 1..m : a[i] = 0

\* Felt * Felt::from(2).pow(n): whole bytes at once while the product needs
\* no reduction, doublings in the field otherwise
RECURSIVE FeltMulPow2(_, _)
FeltMulPow2(a0, n) ==
    Eager(a0, LAMBDA a :
        IF n = 0 THEN a
        ELSE IF n >= 8 /\ FitsShifted(a, n \div 8)
             THEN FeltMulPow2(ShiftBytes(a, n \div 8), n % 8)
        ELSE IF n = 1 THEN Double(a)
        ELSE FeltMulPow2(FeltMulPow2(a, n \div 2), n - (n \div 2)))

\* Felt::from(n) for a small literal n < 2^24
FeltFromInt(n) ==
    Bytes32([i \in 1..NumBytes |->
        IF i = NumBytes THEN n % 256
        ELSE IF i = NumBytes - 1 THEN (n \div 256) % 256
        ELSE IF i = NumBytes - 2 THEN (n \div 65536) % 256
        ELSE 0])

\* Felt::from(v) for the u64 whose eight big-endian bytes are b
FeltFromU64(b) ==
    Bytes32([i \in 1..NumBytes |-> IF i > NumBytes - 8 THEN b[i - (NumBytes - 8)] ELSE 0])

\* Felt::from_bytes_be: the 256-bit value reduced into the field
FeltFromBytesBe(bytes) == ReduceFull(bytes)

(***************************************************************************)
(* Strings and hexadecimal.                                                *)
(***************************************************************************)
HexChars == <<"0", "1", "2", "3", "4", "5", "6", "7", "8", "9",
              "a", "b", "c", "d", "e", "f">>

UpperHexChars == <<"0", "1", "2", "3", "4", "5", "6", "7", "8", "9",
                   "A", "B", "C", "D", "E", "F">>

IsHexChar(c) == \E v \in 1..16 : HexChars[v] = c \/ UpperHexChars[v] = c

HexVal(c) == (CHOOSE v \in 1..16 : HexChars[v] = c \/ UpperHexChars[v] = c) - 1

\* the literal "0x"
Prefix0x == <<"0", "x">>

StartsWith0x(s) == Len(s) >= 2 /\ s[1] = "0" /\ s[2] = "x"

\* str::trim_start_matches("0x"): removes the prefix as often as it matches
RECURSIVE trim_start_matches_0x(_)
trim_start_matches_0x(s) ==
    IF StartsWith0x(s) THEN trim_start_matches_0x(SubSeq(s, 3, Len(s))) ELSE s

\* the 64 nibbles of a string of at most 64 hex digits, padded on the left
Nibbles64(s) ==
    [i \in 1..(2 * NumBytes) |->
        IF i <= 2 * NumBytes - Len(s) THEN 0 ELSE HexVal(s[i - (2 * NumBytes - Len(s))])]

BytesOfHex(s) ==
    Eager(Nibbles64(s), LAMBDA nib :
        Bytes32([i \in 1..NumBytes |-> 16 * nib[2 * i - 1] + nib[2 * i]]))

Ok(v) == [ok |-> TRUE, val |-> v]

Err(e) == [ok |-> FALSE, err |-> e]

\* Felt::from_hex on a string without prefix: hex digits naming a value of
\* the field, anything else is refused
FeltFromHex(s) ==
    IF Len(s) = 0 \/ Len(s) > 2 * NumBytes \/ \E i \in 1..Len(s) : ~IsHexChar(s[i])
    THEN Err("FromStrError")
    ELSE Eager(BytesOfHex(s), LAMBDA b :
            IF Less(b, PRIME) THEN Ok(b) ELSE Err("FromStrError"))

\* the hex digits of a field element without leading zeros ("0" for zero)
RECURSIVE StripZeros(_)
StripZeros(d) ==
    IF Len(d) > 1 /\ d[1] = "0" THEN StripZeros(Tail(d)) ELSE d

HexDigitsOf(f) ==
    StripZeros([i \in 1..(2 * NumBytes) |->
        IF i % 2 = 1 THEN HexChars[(f[(i + 1) \div 2] \div 16) + 1]
        ELSE HexChars[(f[i \div 2] % 16) + 1]])

\* format!("{:0Wx}", f): lowercase hex, zero-padded on the left to width W
FormatHexPadded(f, width) ==
    Eager(HexDigitsOf(f), LAMBDA d :
        IF Len(d) >= width THEN d
        ELSE [i \in 1..(width - Len(d)) |-> "0"] \o d)

\* a string literal of hex digits as a character sequence, for the inputs
Repeat(c, n) == SubSeq([i \in 1..n |-> c], 1, n)

(***************************************************************************)
(* SignatureManager::new                                                   *)
(***************************************************************************)
\* l2_private_key_hex.trim_start_matches("0x"), Felt::from_hex, map_err
SignatureManager_new(l2_private_key_hex) ==
    Eager(FeltFromHex(trim_start_matches_0x(l2_private_key_hex)),
          LAMBDA private_key :
            IF private_key.ok THEN Ok([private_key |-> private_key.val])
            ELSE Err("FeltError"))

(***************************************************************************)
(* SignatureManager::calc_limit_order_hash                                 *)
(***************************************************************************)
\* starknet_crypto::pedersen_hash: a free constructor, so that two hashes
\* are equal exactly when both arguments are, in this order
pedersen_hash(a, b) == <<"pedersen", a, b>>

\* Felt::from_hex(id.trim_start_matches("0x")).map_err(|_| FeltError)
ParseAssetId(id) == FeltFromHex(trim_start_matches_0x(id))

\* variant: the amounts are not exchanged with the assets when buying
SelectSides_AmountsNotSwapped(is_buy, syn_id, col_id, amount_synthetic, amount_collateral) ==
    IF is_buy
    THEN [asset_id_sell |-> col_id, asset_id_buy |-> syn_id,
          amount_sell |-> amount_synthetic, amount_buy |-> amount_collateral]
    ELSE [asset_id_sell |-> syn_id, asset_id_buy |-> col_id,
          amount_sell |-> amount_synthetic, amount_buy |-> amount_collateral]

\* variant: is_buy is ignored, the synthetic side is always the sell side
SelectSides_NeverSwapped(is_buy, syn_id, col_id, amount_synthetic, amount_collateral) ==
    [asset_id_sell |-> syn_id, asset_id_buy |-> col_id,
     amount_sell |-> amount_synthetic, amount_buy |-> amount_collateral]

\* the if is_buy { .. } else { .. } tuple
SelectSides(is_buy, syn_id, col_id, amount_synthetic, amount_collateral) ==
    IF is_buy
    THEN [asset_id_sell |-> col_id, asset_id_buy |-> syn_id,
          amount_sell |-> amount_collateral, amount_buy |-> amount_synthetic]
    ELSE [asset_id_sell |-> syn_id, asset_id_buy |-> col_id,
          amount_sell |-> amount_synthetic, amount_buy |-> amount_collateral]

\* the closure shift_add: acc * 2^shift + val in the field
shift_add(acc, val, shift) == FeltAdd(FeltMulPow2(acc, shift), FeltFromU64(val))

\* variant: the nonce is packed at 64 bits
PackedMessage0_NonceAt64(amount_sell, amount_buy, amount_fee, nonce) ==
    shift_add(shift_add(shift_add(FeltFromU64(amount_sell), amount_buy, 64),
                        amount_fee, 64), nonce, 64)

\* variant: amount_fee is shifted in as zero
PackedMessage0_FeeDropped(amount_sell, amount_buy, amount_fee, nonce) ==
    shift_add(shift_add(shift_add(FeltFromU64(amount_sell), amount_buy, 64),
                        <<0, 0, 0, 0, 0, 0, 0, 0>>, 64), nonce, 32)

\* pm0
PackedMessage0(amount_sell, amount_buy, amount_fee, nonce) ==
    shift_add(shift_add(shift_add(FeltFromU64(amount_sell), amount_buy, 64),
                        amount_fee, 64), nonce, 32)

limit_order_type == 3

\* variant: account_id is packed twice and the padding is left out
PackedMessage1_AccountTwiceNoPadding(account_id, expire_time) ==
    shift_add(shift_add(shift_add(FeltFromInt(limit_order_type),
        account_id, 64), account_id, 64), expire_time, 32)

\* pm1
PackedMessage1(account_id, expire_time) ==
    FeltMulPow2(
        shift_add(shift_add(shift_add(shift_add(FeltFromInt(limit_order_type),
            account_id, 64), account_id, 64), account_id, 64), expire_time, 32),
        17)

\* variant: the running hash is passed as the second argument
HashChain_RunningSecond(sel, fee_id, pm0, pm1) ==
    LET msg1 == pedersen_hash(sel.asset_id_sell, sel.asset_id_buy)
        msg2 == pedersen_hash(fee_id, msg1)
        msg3 == pedersen_hash(pm0, msg2)
        msg4 == pedersen_hash(pm1, msg3)
    IN  msg4

\* the hash chain over the selected sides and the two packed words
HashChain(sel, fee_id, pm0, pm1) ==
    LET msg1 == pedersen_hash(sel.asset_id_sell, sel.asset_id_buy)
        msg2 == pedersen_hash(msg1, fee_id)
        msg3 == pedersen_hash(msg2, pm0)
        msg4 == pedersen_hash(msg3, pm1)
    IN  msg4

\* The body of calc_limit_order_hash on the ten parameters o.  The outcome
\* carries the locals sel, pm0 and pm1 with the returned hash.
OrderHashOf(o) ==
    Eager(<<ParseAssetId(o.synthetic_asset_id), ParseAssetId(o.collateral_asset_id),
            ParseAssetId(o.fee_asset_id)>>, LAMBDA ids :
    LET syn_id == ids[1]
        col_id == ids[2]
        fee_id == ids[3]
    IN  IF ~syn_id.ok THEN Err("FeltError")
        ELSE IF ~col_id.ok THEN Err("FeltError")
        ELSE IF ~fee_id.ok THEN Err("FeltError")
        ELSE Eager(SelectSides(o.is_buy, syn_id.val, col_id.val,
                               o.amount_synthetic, o.amount_collateral),
             LAMBDA sel :
               Eager(PackedMessage0(sel.amount_sell, sel.amount_buy,
                                    o.amount_fee, o.nonce),
               LAMBDA pm0 :
                 Eager(PackedMessage1(o.account_id, o.expire_time),
                 LAMBDA pm1 :
                   [ok |-> TRUE, val |-> HashChain(sel, fee_id.val, pm0, pm1),
                    sel |-> sel, pm0 |-> pm0, pm1 |-> pm1]))))

\* variant: the manager's key is hashed in
calc_limit_order_hash_Keyed(self, o) ==
    Eager(OrderHashOf(o), LAMBDA res :
        IF res.ok THEN [res EXCEPT !.val = pedersen_hash(@, self.private_key)]
        ELSE res)

\* self.calc_limit_order_hash(..): &self is taken and never read
calc_limit_order_hash(self, o) == OrderHashOf(o)

(***************************************************************************)
(* SignatureManager::sign_l2_action                                        *)
(***************************************************************************)
\* bytes[0] &= 0x0f on the buffer holding k_high then k_low, big-endian
MaskTopBits(bytes) == [bytes EXCEPT ![1] = @ % 16]

\* variant: k_low is never copied into bytes[16..32]
NonceOf_LowHalfMissing(bytes) ==
    FeltFromBytesBe(MaskTopBits(
        [i \in 1..NumBytes |-> IF i > NumBytes \div 2 THEN 0 ELSE bytes[i]]))

\* the signing nonce: bytes[0] &= 0x0f, then Felt::from_bytes_be
NonceOf(bytes) == FeltFromBytesBe(MaskTopBits(bytes))

\* starknet_crypto::sign(private_key, hash, k): what it may return.  A zero
\* nonce is always refused; any other nonce is refused when r or s comes out
\* unusable, and otherwise yields a pair (r, s) of field elements.
SignOutcomes(private_key, hash, k, pairs) ==
    IF k = FeltZero THEN {Err("InvalidK")}
    ELSE {Err("InvalidK")} \cup {Ok(p) : p \in pairs}

\* variant: "{:x}" in place of "{:064x}"
FormatSignature_Unpadded(r, s) ==
    Prefix0x \o FormatHexPadded(r, 1) \o FormatHexPadded(s, 1)

\* format!("0x{}{}", format!("{:064x}", r), format!("{:064x}", s))
FormatSignature(r, s) ==
    Prefix0x \o FormatHexPadded(r, 64) \o FormatHexPadded(s, 64)

\* The whole function, given the 32 random bytes the generator delivers and
\* the primitive's answer for the nonce built from them: the primitive is
\* invoked once, and its error is mapped to SigningError and returned.
\* attempts lists the nonces handed to the primitive during the call.
sign_l2_action(self, hash, bytes, signature) ==
    Eager(NonceOf(bytes), LAMBDA k :
        IF ~signature.ok
        THEN [ok |-> FALSE, err |-> "SigningError", attempts |-> <<k>>]
        ELSE [ok |-> TRUE, val |-> FormatSignature(signature.val.r, signature.val.s),
              attempts |-> <<k>>])

(***************************************************************************)
(* State.                                                                  *)
(*   managers  the SignatureManager objects that exist, by slot            *)
(*   lastNew   the latest call of SignatureManager::new and its outcome    *)
(*   calcSeen  the calc_limit_order_hash calls made: caller, parameters,   *)
(*             outcome                                                     *)
(*   primLog   every invocation of the signature primitive, in order       *)
(*   lastSign  the latest call of sign_l2_action and its outcome           *)
(***************************************************************************)
VARIABLES managers, lastNew, calcSeen, primLog, lastSign

vars == <<managers, lastNew, calcSeen, primLog, lastSign>>

MgrIds == {1, 2}

NoManager == [exists |-> FALSE]

NoCall == [called |-> FALSE]

\* bounds of the exploration
MaxCalcs == 2

MaxSigns == 2

(***************************************************************************)
(* Inputs.                                                                 *)
(***************************************************************************)
\* the u64 n, for n < 2^24
U64(n) == SubSeq([i \in 1..8 |-> IF i = 8 THEN n % 256
                                  ELSE IF i = 7 THEN (n \div 256) % 256
                                  ELSE IF i = 6 THEN (n \div 65536) % 256 ELSE 0], 1, 8)

\* asset ids: "0x1", "0x2", "0x3", and the id 1 written "1" and "0x0x0x1"
Asset1 == <<"0", "x", "1">>
Asset2 == <<"0", "x", "2">>
Asset3 == <<"0", "x", "3">>
Asset1Bare == <<"1">>
Asset1Thrice0x == <<"0", "x", "0", "x", "0", "x", "1">>
\* strings that are no hex number: "zz", "0x1g", "" and "0x"
AssetZZ == <<"z", "z">>
Asset1g == <<"0", "x", "1", "g">>
AssetEmpty == <<>>
AssetOnly0x == <<"0", "x">>

Order(syn, col, fee, is_buy, amount_synthetic, amount_collateral) ==
    [synthetic_asset_id |-> syn, collateral_asset_id |-> col, fee_asset_id |-> fee,
     is_buy |-> is_buy, amount_synthetic |-> U64(amount_synthetic),
     amount_collateral |-> U64(amount_collateral), amount_fee |-> U64(10),
     nonce |-> U64(123), account_id |-> U64(1), expire_time |-> U64(999999)]

\* the call of tests::test_signature_generation
TestOrder == Order(Asset1, Asset2, Asset3, TRUE, 100, 200)

\* well-formed orders: both directions, assets and amounts equal or not
GoodOrders ==
    {Order(syn, col, Asset3, b, a[1], a[2]) :
        syn \in {Asset1}, col \in {Asset1, Asset2}, b \in BOOLEAN,
        a \in {<<100, 200>>, <<100, 100>>}}
    \cup {Order(Asset2, Asset1, Asset3, b, 200, 100) : b \in BOOLEAN}
    \cup {Order(Asset1Bare, Asset2, Asset3, TRUE, 100, 200)}

\* orders with an asset id that is no "0x"-prefixed or bare hex number
BadOrders ==
    {Order(AssetZZ, Asset2, Asset3, TRUE, 100, 200),
     Order(Asset1, Asset1g, Asset3, TRUE, 100, 200),
     Order(Asset1, Asset2, AssetEmpty, FALSE, 100, 200),
     Order(Asset1, Asset2, AssetOnly0x, TRUE, 100, 200),
     Order(Asset1Thrice0x, Asset2, Asset3, TRUE, 100, 200),
     Order(AssetZZ, Asset1g, Asset3, FALSE, 100, 200)}

Orders == GoodOrders \cup BadOrders

\* u64 values beyond the reach of U64: 2^32, 2^32 + 5 and u64::MAX
U64Pow32 == <<0, 0, 0, 1, 0, 0, 0, 0>>
U64Pow32Plus5 == <<0, 0, 0, 1, 0, 0, 0, 5>>
U64Max == <<255, 255, 255, 255, 255, 255, 255, 255>>

\* the test's order with other values for amount_fee and nonce
WithFeeNonce(amount_fee, nonce) ==
    [TestOrder EXCEPT !.amount_fee = amount_fee, !.nonce = nonce]

\* the test's order with other values for account_id and expire_time
WithAccountExpiry(account_id, expire_time) ==
    [TestOrder EXCEPT !.account_id = account_id, !.expire_time = expire_time]

\* every u64 parameter at u64::MAX
MaxOrder ==
    [TestOrder EXCEPT !.amount_synthetic = U64Max, !.amount_collateral = U64Max,
                      !.amount_fee = U64Max, !.nonce = U64Max,
                      !.account_id = U64Max, !.expire_time = U64Max]

\* orders for the packing: small values, values of 32 bits and more in the
\* 32-bit positions (nonce, expire_time), and the largest values
PackOrders ==
    {TestOrder, [TestOrder EXCEPT !.is_buy = FALSE], MaxOrder}
    \cup {WithFeeNonce(f[1], f[2]) :
            f \in {<<U64(0), U64(0)>>, <<U64(1), U64(0)>>, <<U64(0), U64(1)>>,
                   <<U64(0), U64Pow32>>, <<U64(1), U64Pow32Plus5>>,
                   <<U64Max, U64(123)>>}}
    \cup {WithAccountExpiry(a[1], a[2]) :
            a \in {<<U64(1), U64(0)>>, <<U64(2), U64(0)>>, <<U64(1), U64Pow32>>,
                   <<U64(2), U64Pow32Plus5>>, <<U64Max, U64(999999)>>}}

\* private keys: "0x12ab", "12ab" and "0xc0ffee"
Key12ab == <<"0", "x", "1", "2", "a", "b">>
Key12abBare == <<"1", "2", "a", "b">>
KeyCoffee == <<"0", "x", "c", "0", "f", "f", "e", "e">>
\* the prime less one, the prime plus one and 2^256 - 1, in hex
HexPrimeMinus1 == <<"8">> \o Repeat("0", 14) \o <<"1", "1">> \o Repeat("0", 46)
HexPrimePlus1 == <<"8">> \o Repeat("0", 14) \o <<"1", "1">> \o Repeat("0", 45) \o <<"2">>
HexAllF == Repeat("f", 64)

KeyInputs ==
    {Key12ab, Key12abBare, KeyCoffee,
     HexPrimeMinus1, Prefix0x \o HexPrimeMinus1,
     HexPrimePlus1, Prefix0x \o HexPrimePlus1, HexAllF, Prefix0x \o HexAllF,
     <<"z", "z">>, <<"0", "x", "z", "z">>, <<"1", "2", "g">>, <<"x", "1", "2">>,
     <<"1", "2", "0", "x">>, <<>>, Prefix0x,
     Prefix0x \o Prefix0x \o Key12ab}

\* the managers the hashing and signing runs start with
InitKeys == <<Key12ab, KeyCoffee>>

ManagerOf(input) ==
    [exists |-> TRUE, private_key |-> SignatureManager_new(input).val.private_key]

\* 32-byte outputs of the random generator
SampleLow == FeltFromInt(5)
SampleHighNibble == [SampleLow EXCEPT ![1] = 240]
SamplePrime == PRIME
SampleAbovePrime == [PRIME EXCEPT ![NumBytes] = 6]
SampleOnes == Bytes32([i \in 1..NumBytes |-> 255])

Samples == {SampleLow, SampleHighNibble, SamplePrime, SampleAbovePrime, SampleOnes}

\* message hashes handed to sign_l2_action
TestHash == calc_limit_order_hash(ManagerOf(Key12ab), TestOrder).val
OtherHash == calc_limit_order_hash(ManagerOf(Key12ab),
                                   Order(Asset1, Asset2, Asset3, FALSE, 100, 200)).val

SignHashes == {TestHash, OtherHash}

\* pairs (r, s) the primitive may answer with
PrimeMinus1 == Sub(PRIME, FeltFromInt(1))

SignaturePairs ==
    {[r |-> FeltFromInt(1), s |-> PrimeMinus1],
     [r |-> PrimeMinus1, s |-> FeltFromInt(43981)]}

\* calc_limit_order_hash on the managers and orders above, computed once
CalcTable ==
    {<<self, o, calc_limit_order_hash(self, o)>> :
        self \in {ManagerOf(InitKeys[id]) : id \in MgrIds}, o \in Orders \cup PackOrders}

\* self.calc_limit_order_hash(o)
CalcResult(self, o) ==
    IF \E e \in CalcTable : e[1] = self /\ e[2] = o
    THEN (CHOOSE e \in CalcTable : e[1] = self /\ e[2] = o)[3]
    ELSE calc_limit_order_hash(self, o)

(***************************************************************************)
(* Operations.                                                             *)
(***************************************************************************)
\* SignatureManager::new(input) for slot id: on success the slot holds the
\* new manager, on error nothing is constructed
New(id, input) ==
    \E res \in {SignatureManager_new(input)} :
        /\ managers' = IF res.ok
                       THEN [managers EXCEPT ![id] =
                                [exists |-> TRUE, private_key |-> res.val.private_key]]
                       ELSE managers
        /\ lastNew' = [called |-> TRUE, id |-> id, input |-> input, ok |-> res.ok]
        /\ UNCHANGED <<calcSeen, primLog, lastSign>>

\* managers[id].calc_limit_order_hash(o)
CalcHash(id, o) ==
    /\ managers[id].exists
    /\ \E call \in {[by |-> id, order |-> o, result |-> CalcResult(managers[id], o)]} :
           /\ call \in calcSeen \/ Cardinality(calcSeen) < MaxCalcs
           /\ calcSeen' = calcSeen \cup {call}
    /\ UNCHANGED <<managers, lastNew, primLog, lastSign>>

\* managers[id].sign_l2_action(hash) with the generator delivering bytes
SignL2Action(id, hash, bytes, pairs) ==
    /\ managers[id].exists
    /\ Len(primLog) < MaxSigns
    /\ LET self == managers[id]
           callNo == Len(primLog) + 1
       IN  \E k \in {NonceOf(bytes)} :
           \E signature \in SignOutcomes(self.private_key, hash, k, pairs) :
           \E res \in {sign_l2_action(self, hash, bytes, signature)} :
                 /\ primLog' = primLog \o
                        [i \in 1..Len(res.attempts) |->
                            [call |-> callNo, id |-> id, key |-> self.private_key,
                             hash |-> hash, bytes |-> bytes, k |-> res.attempts[i],
                             rejected |-> ~signature.ok]]
                 /\ lastSign' = [called |-> TRUE, call |-> callNo, id |-> id,
                                 hash |-> hash, bytes |-> bytes,
                                 masked |-> MaskTopBits(bytes),
                                 signature |-> signature, result |-> res]
    /\ UNCHANGED <<managers, lastNew, calcSeen>>

(***************************************************************************)
(* Specifications.                                                         *)
(***************************************************************************)
Init ==
    /\ managers = [id \in MgrIds |-> NoManager]
    /\ lastNew = NoCall
    /\ calcSeen = {}
    /\ primLog = <<>>
    /\ lastSign = NoCall

\* two managers constructed from InitKeys, nothing called yet
InitConstructed ==
    /\ managers = [id \in MgrIds |-> ManagerOf(InitKeys[id])]
    /\ lastNew = NoCall
    /\ calcSeen = {}
    /\ primLog = <<>>
    /\ lastSign = NoCall

\* construction, over every key input
NextKey == \E id \in MgrIds, input \in KeyInputs : New(id, input)

SpecKey == Init /\ [][NextKey]_vars

\* hashing by either manager, with signing in between
NextHash ==
    \/ \E id \in MgrIds, o \in Orders : CalcHash(id, o)
    \/ \E id \in {1} : SignL2Action(id, TestHash, SampleLow, {})

SpecHash == InitConstructed /\ [][NextHash]_vars

\* hashing by either manager, over the orders for the packing
NextPack == \E id \in MgrIds, o \in PackOrders : CalcHash(id, o)

SpecPack == InitConstructed /\ [][NextPack]_vars

\* signing, over every sample and every answer of the primitive: manager 1
\* signs both hashes, manager 2 the first
NextSign ==
    \E id \in MgrIds, hash \in SignHashes, bytes \in Samples :
        /\ id = 1 \/ hash = TestHash
        /\ SignL2Action(id, hash, bytes, SignaturePairs)

SpecSign == InitConstructed /\ [][NextSign]_vars

\* everything, over few inputs
Next ==
    \/ \E id \in MgrIds, input \in {Key12ab, KeyCoffee, <<"z", "z">>} : New(id, input)
    \/ \E id \in MgrIds, o \in {TestOrder} : CalcHash(id, o)
    \/ \E id \in MgrIds, bytes \in {SampleLow, SamplePrime} :
            SignL2Action(id, TestHash, bytes, SignaturePairs)

Spec == Init /\ [][Next]_vars

(***************************************************************************)
(* Properties.                                                             *)
(***************************************************************************)
\* the low 252 bits of a 32-byte value
Low252(b) == [b EXCEPT ![1] = @ % 16]

\* two 252-bit values name the same field element
CongruentModPrime(a, b) == a = b \/ a = AddRaw(b, PRIME) \/ b = AddRaw(a, PRIME)

\* pairs of primitive invocations of different calls under one private key
SameKeyPairs ==
    {p \in (1..Len(primLog)) \X (1..Len(primLog)) :
        /\ p[1] < p[2]
        /\ primLog[p[1]].call # primLog[p[2]].call
        /\ primLog[p[1]].key = primLog[p[2]].key}

\* C1 as stated: under one private key no two sign_l2_action calls pass the
\* same nonce k to the primitive, on the same hash or on distinct hashes.
C1_NoNonceReuse ==
    \A p \in SameKeyPairs : primLog[p[1]].k # primLog[p[2]].k

\* C1 amended: under one private key two calls pass the same nonce k only
\* when the 32 bytes drawn in the two calls agree in their low 252 bits
\* modulo the field prime; the hash and earlier calls play no part.
C1_NonceRepeatsOnlyWithDraw ==
    \A p \in SameKeyPairs :
        primLog[p[1]].k = primLog[p[2]].k
            => CongruentModPrime(Low252(primLog[p[1]].bytes), Low252(primLog[p[2]].bytes))

C1_Witness ==
    \E p \in SameKeyPairs :
        /\ primLog[p[1]].k = primLog[p[2]].k
        /\ primLog[p[1]].hash # primLog[p[2]].hash
        /\ primLog[p[1]].bytes # primLog[p[2]].bytes

\* C2: a nonce the primitive rejects is followed, within the same call, by
\* another invocation with a newly sampled nonce; an error is returned only
\* after such retries.
C2_RejectedNonceIsRetried ==
    \A i \in 1..Len(primLog) :
        primLog[i].rejected =>
            \E j \in (i + 1)..Len(primLog) : primLog[j].call = primLog[i].call

\* C3: the sample with its most significant nibble masked is strictly less
\* than the field prime.
C3_MaskedBelowPrime ==
    lastSign.called => Less(lastSign.masked, PRIME)

\* the input after stripping one optional leading "0x"
StripOne0x(str) == IF StartsWith0x(str) THEN SubSeq(str, 3, Len(str)) ELSE str

\* an optional "0x", then hex digits naming a field element
WellFormedHex(str) == FeltFromHex(StripOne0x(str)).ok

\* C4: new succeeds exactly when the input, after stripping one optional
\* leading "0x", is hex naming a field element, and then holds that element.
C4_NewAcceptsExactlyWellFormed ==
    lastNew.called =>
        /\ lastNew.ok <=> WellFormedHex(lastNew.input)
        /\ lastNew.ok =>
              managers[lastNew.id] =
                [exists |-> TRUE, private_key |-> FeltFromHex(StripOne0x(lastNew.input)).val]

\* C5: the returned hash is Hash(Hash(Hash(Hash(asset_sell, asset_buy),
\* fee_asset_id), pm0), pm1), the running hash always the first argument.
C5_HashChainNesting ==
    \A c \in calcSeen :
        (c.result.ok /\ WellFormedHex(c.order.fee_asset_id)) =>
            c.result.val =
                <<"pedersen",
                  <<"pedersen",
                    <<"pedersen",
                      <<"pedersen", c.result.sel.asset_id_sell, c.result.sel.asset_id_buy>>,
                      FeltFromHex(StripOne0x(c.order.fee_asset_id)).val>>,
                    c.result.pm0>>,
                  c.result.pm1>>

C5_Witness ==
    \E c \in calcSeen :
        /\ c.result.ok
        /\ c.result.sel.asset_id_sell # c.result.sel.asset_id_buy
        /\ c.result.pm0 # c.result.pm1
        /\ WellFormedHex(c.order.fee_asset_id)

\* the field element an asset id string names
AssetValue(str) == FeltFromHex(StripOne0x(str)).val

\* C6: buying sells the collateral asset and amount for the synthetic ones,
\* selling the reverse; an asset and its amount are selected together.
C6_SidesSelectedTogether ==
    \A c \in calcSeen :
        (c.result.ok /\ WellFormedHex(c.order.synthetic_asset_id)
                     /\ WellFormedHex(c.order.collateral_asset_id)) =>
            IF c.order.is_buy
            THEN /\ c.result.sel.asset_id_sell = AssetValue(c.order.collateral_asset_id)
                 /\ c.result.sel.asset_id_buy = AssetValue(c.order.synthetic_asset_id)
                 /\ c.result.sel.amount_sell = c.order.amount_collateral
                 /\ c.result.sel.amount_buy = c.order.amount_synthetic
            ELSE /\ c.result.sel.asset_id_sell = AssetValue(c.order.synthetic_asset_id)
                 /\ c.result.sel.asset_id_buy = AssetValue(c.order.collateral_asset_id)
                 /\ c.result.sel.amount_sell = c.order.amount_synthetic
                 /\ c.result.sel.amount_buy = c.order.amount_collateral

\* the call of the repository's test: sell "0x2" 200 for "0x1" 100
C6_Witness ==
    \E c \in calcSeen :
        /\ c.order = TestOrder
        /\ c.result.ok
        /\ c.result.sel = [asset_id_sell |-> FeltFromInt(2), asset_id_buy |-> FeltFromInt(1),
                           amount_sell |-> U64(200), amount_buy |-> U64(100)]

\* order o with is_buy flipped and the synthetic and collateral sides exchanged
Flipped(o) ==
    [o EXCEPT !.is_buy = ~o.is_buy,
              !.synthetic_asset_id = o.collateral_asset_id,
              !.collateral_asset_id = o.synthetic_asset_id,
              !.amount_synthetic = o.amount_collateral,
              !.amount_collateral = o.amount_synthetic]

\* the sell and buy asset/amount pairs of a hashed order are identical
Degenerate(c) ==
    /\ c.result.sel.asset_id_sell = c.result.sel.asset_id_buy
    /\ c.result.sel.amount_sell = c.result.sel.amount_buy

FlippedPairs ==
    {p \in calcSeen \X calcSeen :
        p[2].order = Flipped(p[1].order) /\ p[1].result.ok /\ p[2].result.ok}

\* C7 as stated: the hashes of an order and of its flipped order differ,
\* unless the order is degenerate.
C7_FlippedHashesDiffer ==
    \A p \in FlippedPairs : ~Degenerate(p[1]) => p[1].result.val # p[2].result.val

\* C7 amended: the hashes of an order and of its flipped order are equal,
\* for every order.
C7_FlippedHashesEqual ==
    \A p \in FlippedPairs : p[1].result.val = p[2].result.val

C7_Witness ==
    \E p \in FlippedPairs : ~Degenerate(p[1])

LowerHexChars == {HexChars[v] : v \in 1..16}

\* C8: a returned signature is 130 characters, "0x" and 128 lowercase hex
\* digits, the first 64 spelling r and the last 64 spelling s.
C8_SignatureFormat ==
    (lastSign.called /\ lastSign.result.ok) =>
        LET sig == lastSign.result.val
        IN  /\ Len(sig) = 130
            /\ sig[1] = "0"
            /\ sig[2] = "x"
            /\ \A i \in 3..130 : sig[i] \in LowerHexChars
            /\ BytesOfHex(SubSeq(sig, 3, 66)) = lastSign.signature.val.r
            /\ BytesOfHex(SubSeq(sig, 67, 130)) = lastSign.signature.val.s

\* a signature whose r needs 63 digits of padding
C8_Witness ==
    /\ lastSign.called
    /\ lastSign.result.ok
    /\ lastSign.signature.val.r = FeltFromInt(1)

\* C9: calls with identical parameters return the identical outcome,
\* whichever manager makes them and whatever was called before.
C9_HashDependsOnParametersOnly ==
    \A a \in calcSeen, b \in calcSeen : a.order = b.order => a.result = b.result

\* the same order hashed by two managers with different keys, signing done
C9_Witness ==
    \E a \in calcSeen, b \in calcSeen :
        /\ a.order = b.order
        /\ a.by # b.by
        /\ managers[a.by].private_key # managers[b.by].private_key
        /\ a.result.ok
        /\ Len(primLog) > 0

\* C10: an asset id that is malformed hex makes the call return an error.
C10_MalformedAssetRejected ==
    \A c \in calcSeen :
        (\/ ~WellFormedHex(c.order.synthetic_asset_id)
         \/ ~WellFormedHex(c.order.collateral_asset_id)
         \/ ~WellFormedHex(c.order.fee_asset_id)) => ~c.result.ok

(***************************************************************************)
(* Packed words.  The expected values are computed as plain integers of    *)
(* 320 bits, held as twenty 16-bit limbs with the least significant first, *)
(* so that no step of the computation can lose a bit.                      *)
(***************************************************************************)
Limbs(f) == SubSeq(f, 1, 20)

\* the integer of a 32-byte big-endian value
LimbsOfBytes(b) ==
    Limbs([i \in 1..20 |-> IF i <= 16 THEN b[34 - 2 * i] + 256 * b[33 - 2 * i] ELSE 0])

\* the integer of a u64 given by its eight big-endian bytes
LimbsOfU64(v) ==
    Limbs([i \in 1..20 |-> IF i <= 4 THEN v[10 - 2 * i] + 256 * v[9 - 2 * i] ELSE 0])

\* the integer n, for n < 2^16
LimbsOfInt(n) == Limbs([i \in 1..20 |-> IF i = 1 THEN n ELSE 0])

RECURSIVE AddLimbsFrom(_, _, _, _, _)
AddLimbsFrom(a, b, i, carry, acc) ==
    IF i > 20 THEN acc
    ELSE AddLimbsFrom(a, b, i + 1, (a[i] + b[i] + carry) \div 65536,
                      Append(acc, (a[i] + b[i] + carry) % 65536))

\* a + b
AddLimbs(a0, b0) ==
    Eager(a0, LAMBDA a : Eager(b0, LAMBDA b : AddLimbsFrom(a, b, 1, 0, <<>>)))

\* a * 2^(16 * k)
ShiftLimbs(a0, k) ==
    Eager(a0, LAMBDA a : Limbs([i \in 1..20 |-> IF i > k THEN a[i - k] ELSE 0]))

\* a * 2^bits for bits a multiple of 16, or a multiple of 16 plus one
TimesPow2(a0, bits) ==
    Eager(a0, LAMBDA a :
        IF bits % 16 = 0 THEN ShiftLimbs(a, bits \div 16)
        ELSE ShiftLimbs(AddLimbs(a, a), bits \div 16))

\* acc * 2^bits + value
PackInt(acc, value, bits) == AddLimbs(TimesPow2(acc, bits), LimbsOfU64(value))

\* an integer below 2^251, which is its own residue modulo PRIME
BelowPow251(a) == a[16] < 2048 /\ \A i \in 17..20 : a[i] = 0

\* ((amount_sell * 2^64 + amount_buy) * 2^64 + amount_fee) * 2^32 + nonce
ExpectedWord0(amount_sell, amount_buy, amount_fee, nonce) ==
    PackInt(PackInt(PackInt(LimbsOfU64(amount_sell), amount_buy, 64),
                    amount_fee, 64), nonce, 32)

\* the successful calls made so far
OkCalls == {c \in calcSeen : c.result.ok}

\* C11: packed word 0 of every successful call is
\* ((amount_sell * 2^64 + amount_buy) * 2^64 + amount_fee) * 2^32 + nonce
\* modulo the field prime, for every u64 value of the four fields; the
\* integer stays below 2^251, so it is the residue itself.
C11_PackedWord0 ==
    \A c \in OkCalls :
        \E want \in {ExpectedWord0(c.result.sel.amount_sell, c.result.sel.amount_buy,
                                   c.order.amount_fee, c.order.nonce)} :
            /\ BelowPow251(want)
            /\ LimbsOfBytes(c.result.pm0) = want

\* a call with a nonce of more than 32 bits, whose nonce reaches into the
\* bits of amount_fee, has been packed, and so has the order of u64::MAX
C11_Witness ==
    /\ \E c \in OkCalls :
          /\ c.order = WithFeeNonce(U64(1), U64Pow32Plus5)
          /\ LimbsOfBytes(c.result.pm0)[1] = 5
          /\ LimbsOfBytes(c.result.pm0)[3] = 2
          /\ LimbsOfBytes(c.result.pm0)[7] = 100
          /\ LimbsOfBytes(c.result.pm0)[11] = 200
    /\ \E c \in OkCalls : c.order = MaxOrder

\* a * 2^64 + account_id at 64 bits, three times, from the tag 3; then
\* expire_time at 32 bits; then the 17 bits of padding
ExpectedWord1(account_id, expire_time) ==
    TimesPow2(PackInt(PackInt(PackInt(PackInt(LimbsOfInt(3), account_id, 64),
                                      account_id, 64), account_id, 64),
                      expire_time, 32), 17)

\* the low 17 bits of an integer are zero
Low17Zero(a) == a[1] = 0 /\ a[2] % 2 = 0

\* C12: packed word 1 of every successful call is
\* ((((3 * 2^64 + account_id) * 2^64 + account_id) * 2^64 + account_id)
\*  * 2^32 + expire_time) * 2^17 modulo the field prime, for every u64
\* account_id and expire_time; the integer stays below 2^251, so it is the
\* residue itself, and its low 17 bits are zero.
C12_PackedWord1 ==
    \A c \in OkCalls :
        \E want \in {ExpectedWord1(c.order.account_id, c.order.expire_time)} :
            /\ BelowPow251(want)
            /\ LimbsOfBytes(c.result.pm1) = want
            /\ Low17Zero(LimbsOfBytes(c.result.pm1))

\* the test's account 1 and expiry 999999 have been packed: 999999 * 2^17
\* in the low bits, the account at bits 49, 113 and 177, the tag at bit 241;
\* and so has an expire_time of more than 32 bits
C12_Witness ==
    /\ \E c \in OkCalls :
          /\ c.order = TestOrder
          /\ LimbsOfBytes(c.result.pm1)
                = Limbs(<<0, 33918, 30, 2, 0, 0, 0, 2, 0, 0, 0, 2, 0, 0, 0, 6,
                          0, 0, 0, 0>>)
    /\ \E c \in OkCalls : c.order = WithAccountExpiry(U64(1), U64Pow32)

\* (amount_sell, amount_buy, amount_fee, nonce) of a successful call
Word0Fields(c) ==
    <<c.result.sel.amount_sell, c.result.sel.amount_buy, c.order.amount_fee,
      c.order.nonce>>

\* (account_id, expire_time) of a successful call
Word1Fields(c) == <<c.order.account_id, c.order.expire_time>>

\* a u64 below 2^32
FitsIn32(v) == \A i \in 1..4 : v[i] = 0

\* C13 as stated: over every u64 input, calls whose
\* (amount_sell, amount_buy, amount_fee, nonce) differ have different packed
\* words 0, and calls whose (account_id, expire_time) differ have different
\* packed words 1.
C13_PackingInjective ==
    \A c, d \in OkCalls :
        /\ Word0Fields(c) # Word0Fields(d) => c.result.pm0 # d.result.pm0
        /\ Word1Fields(c) # Word1Fields(d) => c.result.pm1 # d.result.pm1

\* C13 as the code has it: packed word 0 tells apart the calls whose nonce
\* is below 2^32 (a larger nonce reaches into the bits of amount_fee, and
\* amount_fee 0 with nonce 2^32 packs like amount_fee 1 with nonce 0); packed
\* word 1 tells apart every two calls whose (account_id, expire_time) differ.
C13_PackingInjectiveInRange ==
    \A c, d \in OkCalls :
        /\ (/\ Word0Fields(c) # Word0Fields(d)
            /\ FitsIn32(c.order.nonce)
            /\ FitsIn32(d.order.nonce)) => c.result.pm0 # d.result.pm0
        /\ Word1Fields(c) # Word1Fields(d) => c.result.pm1 # d.result.pm1

\* two calls that differ in amount_fee alone, with nonces below 2^32, got
\* different packed words 0
C13_Witness ==
    \E c, d \in OkCalls :
        /\ c.order = WithFeeNonce(U64(0), U64(0))
        /\ d.order = WithFeeNonce(U64(1), U64(0))
        /\ c.result.pm0 # d.result.pm0
        /\ c.result.pm1 = d.result.pm1

=============================================================================
